---- MODULE Spec2Model ----
(***************************************************************************)
(* SubSaver: subscription detection over a table of bank transactions.     *)
(*                                                                         *)
(* A table (pandas DataFrame) is a record [columns, rows, date_dtype]: the  *)
(* set of its column names, the sequence of its rows and the dtype of its  *)
(* date column.  A row is a record with the fields date, description,      *)
(* amount.  Descriptions are strings.  Amounts are integers in cents, or   *)
(* NaN for a missing cell.  A date cell is a string as read from the       *)
(* statement (dtype object); pd.to_datetime turns it into a day number     *)
(* (days since 2023-01-01, dtype datetime64[ns]), or NaT for a missing     *)
(* cell.  Derived costs are exact rationals [num, den] of cents.           *)
(***************************************************************************)
EXTENDS Integers, Sequences, FiniteSets, TLC

VARIABLES
    transactions_df,     \* the caller's transaction table (mutated in place by detect_subscriptions)
    pc,                  \* "ready" | "returned" | "raised" | "categorized" | "renamed"
    error,               \* the exception detect_subscriptions raised, "" if none
    potential_subs,      \* rows returned by _find_keyword_matches
    recurring_patterns,  \* rows returned by _find_recurring_patterns
    candidates,          \* rows of pd.concat([...]).drop_duplicates()
    subscriptions,       \* rows of the table detect_subscriptions returned
    description,         \* argument of a direct _categorize_subscription call
    category,            \* its result
    savings_pc,          \* "idle" | "returned" | "raised": a savings_opportunities call
    savings_opportunities, \* the list that call returned
    session_state,       \* st.session_state: [transactions, subscriptions,
                         \* flagged_subscriptions, canceled_subscriptions]
    message,             \* "" | "success" | "error": what the last handler displayed
    csv_columns,         \* the header of a CSV statement as pd.read_csv read it
    data_columns         \* self.data.columns of the CSVParser, in order

parser_vars == <<csv_columns, data_columns>>

vars == <<transactions_df, pc, error, potential_subs, recurring_patterns,
          candidates, subscriptions, description, category,
          savings_pc, savings_opportunities, session_state, message,
          csv_columns, data_columns>>

(***************************************************************************)
(* Bounds of the model.                                                    *)
(***************************************************************************)
MaxLen == 3
MaxTokens == 2

(***************************************************************************)
(* Missing values.                                                         *)
(***************************************************************************)
NaT == -1
NaN == -1

\* float('nan') as a derived cost
CostNaN == [num |-> 0, den |-> 0]

(***************************************************************************)
(* Generic helpers over sequences.                                         *)
(***************************************************************************)
Range(s) == {s[i] : i \in 1..Len(s)}

RECURSIVE SumSeq(_)
SumSeq(s) == IF s = <<>> THEN 0 ELSE Head(s) + SumSeq(Tail(s))

Abs(x) == IF x < 0 THEN -x ELSE x

\* keys of a groupby, each once (the order of the groups is not observed)
RECURSIVE Unique(_)
Unique(s) ==
    IF s = <<>> THEN <<>>
    ELSE LET rest == Unique(SubSeq(s, 1, Len(s) - 1))
             x == s[Len(s)]
         IN IF x \in Range(rest) THEN rest ELSE Append(rest, x)

\* insertion of a day number into an ascending list; NaT sorts last
RECURSIVE InsertDate(_, _)
InsertDate(d, s) ==
    IF s = <<>> THEN <<d>>
    ELSE IF d # NaT /\ (Head(s) = NaT \/ d <= Head(s)) THEN <<d>> \o s
    ELSE <<Head(s)>> \o InsertDate(d, Tail(s))

RECURSIVE SortDates(_)
SortDates(s) == IF s = <<>> THEN <<>> ELSE InsertDate(Head(s), SortDates(Tail(s)))

(***************************************************************************)
(* Strings: str.lower() and the substring test `keyword in x`.             *)
(***************************************************************************)
UpperToLower ==
    [A |-> "a", B |-> "b", C |-> "c", D |-> "d", E |-> "e", F |-> "f", G |-> "g",
     H |-> "h", I |-> "i", J |-> "j", K |-> "k", L |-> "l", M |-> "m", N |-> "n",
     O |-> "o", P |-> "p", Q |-> "q", R |-> "r", S |-> "s", T |-> "t", U |-> "u",
     V |-> "v", W |-> "w", X |-> "x", Y |-> "y", Z |-> "z"]

LowerChar(c) == IF c \in DOMAIN UpperToLower THEN UpperToLower[c] ELSE c

RECURSIVE Lower(_)
Lower(s) ==
    IF Len(s) = 0 THEN ""
    ELSE LowerChar(SubSeq(s, 1, 1)) \o Lower(SubSeq(s, 2, Len(s)))

\* Python's `keyword in text`
Contains(keyword, text) ==
    \E i \in 1..(Len(text) - Len(keyword) + 1) :
        SubSeq(text, i, i + Len(keyword) - 1) = keyword

(***************************************************************************)
(* SubscriptionDetector.__init__                                           *)
(***************************************************************************)
subscription_keywords ==
    <<"subscription", "member", "monthly", "annual", "recurring",
      "netflix", "spotify", "hulu", "disney+", "amazon prime",
      "apple", "google", "microsoft", "adobe", "dropbox", "icloud",
      "hbo", "youtube", "paramount", "peacock", "crunchyroll",
      "gym", "fitness", "audible", "patreon", "onlyfans",
      "vpn", "domain", "hosting", "website", "cloud">>

\* the categories dict, in declaration (= iteration) order
categories ==
    << [name |-> "streaming", keywords |-> <<"netflix", "hulu", "disney+", "hbo", "paramount+", "peacock", "youtube premium">>],
       [name |-> "music",     keywords |-> <<"spotify", "apple music", "tidal", "pandora", "deezer">>],
       [name |-> "cloud",     keywords |-> <<"dropbox", "google one", "icloud", "onedrive", "box">>],
       [name |-> "software",  keywords |-> <<"adobe", "microsoft", "autodesk", "notion", "canva pro">>],
       [name |-> "gaming",    keywords |-> <<"xbox", "playstation", "nintendo", "steam", "epic games">>],
       [name |-> "fitness",   keywords |-> <<"gym", "peloton", "fitness", "strava", "beachbody">>],
       [name |-> "news",      keywords |-> <<"nyt", "wsj", "washington post", "economist", "new yorker">>],
       [name |-> "other",     keywords |-> <<>>] >>

(***************************************************************************)
(* pd.to_datetime on the date column.                                      *)
(***************************************************************************)
DateStrings == {"2023-01-01", "2023-01-21", "2023-02-01", "2023-03-03", "2024-01-01"}
MissingCell == "nan"
NotADate == "not a date"

\* day number of a parseable date string
DateOf(s) ==
    CASE s = "2023-01-01" -> 0
      [] s = "2023-01-21" -> 20
      [] s = "2023-02-01" -> 31
      [] s = "2023-03-03" -> 61
      [] s = "2024-01-01" -> 365

Parseable(s) == s \in DateStrings \cup {MissingCell}

ToDatetime(s) == IF s = MissingCell THEN NaT ELSE DateOf(s)

(***************************************************************************)
(* The descriptions occurring in the tables of the model.  The two string  *)
(* functions applied to every row are tabulated over them once.            *)
(***************************************************************************)
Descriptions == {"NETFLIX.COM", "ACME STORE"}

\* descriptions of the tables handed to _find_keyword_matches alone
KeywordDescriptions ==
    {"NETFLIX.COM", "Monthly Fee", "GOOGLE *YouTube", "ACME STORE", "nyt digital",
     "Xbox Live"}

\* descriptions of the subscription tables handed to savings_opportunities alone
SavingsDescriptions == {"NETFLIX.COM", "HULU", "HBO MAX", "ACME STORE"}

KnownDescriptions == Descriptions \cup KeywordDescriptions \cup SavingsDescriptions

(***************************************************************************)
(* _find_keyword_matches                                                   *)
(***************************************************************************)
\* the keywords looked for in the description as written
KeywordMatchCaseSensitive(desc) ==
    \E k \in 1..Len(subscription_keywords) :
        Contains(subscription_keywords[k], desc)

\* any(keyword in x.lower() for keyword in ...) on x = description.lower()
KeywordMatch(desc) ==
    \E k \in 1..Len(subscription_keywords) :
        Contains(subscription_keywords[k], Lower(Lower(desc)))

KeywordMask == [d \in KnownDescriptions |-> KeywordMatch(d)]

FindKeywordMatches(rows) == SelectSeq(rows, LAMBDA r : KeywordMask[r.description])

(***************************************************************************)
(* sort_values('date') is an unstable sort: rows of equal date may come    *)
(* out in any order.  Iloc0 / IlocLast are the rows that .iloc[0] and      *)
(* .iloc[-1] of the sorted group can be.                                   *)
(***************************************************************************)
GroupDates(group) == SortDates([i \in 1..Len(group) |-> group[i].date])

\* .iloc[-1] where .iloc[0] is meant
Iloc0AsLast(group) == {r \in Range(group) : r.date = GroupDates(group)[Len(group)]}

Iloc0(group) == {r \in Range(group) : r.date = GroupDates(group)[1]}

\* .iloc[0] where .iloc[-1] is meant
IlocLastAsFirst(group) == {r \in Range(group) : r.date = GroupDates(group)[1]}

IlocLast(group) == {r \in Range(group) : r.date = GroupDates(group)[Len(group)]}

\* [(dates[i+1] - dates[i]).days for i in range(len(dates)-1)]
Intervals(dates) == [i \in 1..(Len(dates) - 1) |-> dates[i + 1] - dates[i]]

\* (NaT - d).days is nan, and so is every sum and mean it enters
HasNaT(dates) == \E i \in 1..Len(dates) : dates[i] = NaT

\* a tolerance of 15 days instead of 5
IsConsistentWithin15(intervals) ==
    \A i \in 1..Len(intervals) :
        Abs(intervals[i] * Len(intervals) - SumSeq(intervals)) <= 15 * Len(intervals)

\* all(abs(interval - avg_interval) <= 5 ...), avg_interval = sum / len
IsConsistent(intervals) ==
    \A i \in 1..Len(intervals) :
        Abs(intervals[i] * Len(intervals) - SumSeq(intervals)) <= 5 * Len(intervals)

\* lo <= avg_interval <= hi
MeanIn(intervals, lo, hi) ==
    /\ lo * Len(intervals) <= SumSeq(intervals)
    /\ SumSeq(intervals) <= hi * Len(intervals)

IsSubscriptionPeriod(intervals) ==
    MeanIn(intervals, 25, 35) \/ MeanIn(intervals, 350, 380)

(***************************************************************************)
(* _find_recurring_patterns                                                *)
(***************************************************************************)
\* groupby(['description', 'amount']): rows with a NaN key are dropped
GroupKeys(rows) ==
    Unique([i \in 1..Len(SelectSeq(rows, LAMBDA r : r.amount # NaN)) |->
              LET r == SelectSeq(rows, LAMBDA q : q.amount # NaN)[i]
              IN <<r.description, r.amount>>])

Group(rows, key) ==
    SelectSeq(rows, LAMBDA r : r.description = key[1] /\ r.amount = key[2])

IsRecurring(group) ==
    /\ Len(group) >= 2
    /\ LET dates == GroupDates(group)
           intervals == Intervals(dates)
       IN /\ Len(intervals) >= 1
          /\ ~HasNaT(dates)
          /\ IsConsistent(intervals)
          /\ IsSubscriptionPeriod(intervals)

FindRecurringPatterns(rows) ==
    LET keys == SelectSeq(GroupKeys(rows), LAMBDA k : IsRecurring(Group(rows, k)))
    IN [i \in 1..Len(keys) |-> CHOOSE r \in Iloc0(Group(rows, keys[i])) : TRUE]

(***************************************************************************)
(* pd.concat([potential_subs, recurring_patterns]).drop_duplicates()       *)
(***************************************************************************)
DropDuplicates(rows) == Unique(rows)

(***************************************************************************)
(* _categorize_subscription                                                *)
(***************************************************************************)
AnyKeywordIn(keywords, text) ==
    \E k \in 1..Len(keywords) : Contains(keywords[k], text)

\* the last matching category instead of the first
RECURSIVE CategorizeFromLast(_, _)
CategorizeFromLast(i, text) ==
    IF i > Len(categories) THEN "other"
    ELSE LET later == CategorizeFromLast(i + 1, text)
         IN IF later # "other" THEN later
            ELSE IF AnyKeywordIn(categories[i].keywords, text) THEN categories[i].name
            ELSE "other"

RECURSIVE CategorizeFrom(_, _)
CategorizeFrom(i, text) ==
    IF i > Len(categories) THEN "other"
    ELSE IF AnyKeywordIn(categories[i].keywords, text) THEN categories[i].name
    ELSE CategorizeFrom(i + 1, text)

CategorizeSubscription(desc) == CategorizeFrom(1, Lower(desc))

CategoryOf == [d \in KnownDescriptions |-> CategorizeSubscription(d)]

\* subscriptions['category'] = subscriptions['description'].apply(...)
Categorize(rows) ==
    [i \in 1..Len(rows) |->
        [date |-> rows[i].date, description |-> rows[i].description,
         amount |-> rows[i].amount,
         category |-> CategoryOf[rows[i].description]]]

(***************************************************************************)
(* _calculate_monthly_cost                                                 *)
(***************************************************************************)
\* amount * n / d on floats, exactly; nan stays nan
Scale(amount, n, d) ==
    IF amount = NaN THEN CostNaN ELSE [num |-> amount * n, den |-> d]

\* rounding a tie upwards
RoundHalfUp(num, den) == (2 * num + den) \div (2 * den)

\* Python 3 round(): to the nearest integer, a tie to the even one
Round(num, den) ==
    LET q == num \div den
        r == num % den
    IN IF 2 * r < den THEN q
       ELSE IF 2 * r > den THEN q + 1
       ELSE IF q % 2 = 0 THEN q ELSE q + 1

WithCost(row, monthly_cost, frequency, last_charge) ==
    [date |-> row.date, description |-> row.description, amount |-> row.amount,
     category |-> row.category, monthly_cost |-> monthly_cost,
     frequency |-> frequency, last_charge |-> last_charge]

\* monthly_cost = amount
CostMonthly(amount) == Scale(amount, 1, 1)

\* the yearly amount multiplied instead of divided
CostAnnualTimes12(amount) == Scale(amount, 12, 1)

\* monthly_cost = amount / 12
CostAnnual(amount) == Scale(amount, 1, 12)

\* monthly_cost = amount * (30 / avg_interval), avg_interval = total / n
CostOther(amount, total, n) == Scale(amount, 30 * n, total)

\* f'every {round(avg_interval)} days'
FrequencyOther(total, n) == "every " \o ToString(Round(total, n)) \o " days"

\* a group of one taken for a monthly charge
SingleOccurrenceAsMonthly(row) == WithCost(row, Scale(row.amount, 1, 1), "monthly", row.date)

\* the row of a group of one
SingleOccurrence(row) == WithCost(row, Scale(row.amount, 1, 1), "unknown", row.date)

\* the earliest date where the latest is meant
LastChargeAsFirst(dates) == dates[1]

\* last_charge = sorted_group['date'].max()
LastCharge(dates) == dates[Len(dates)]

\* the outcomes of one iteration of `for desc, group in grouped`:
\* [error |-> "", row |-> the appended row] or [error |-> the exception]
GroupOutcomes(group) ==
    IF Len(group) >= 2 THEN
        LET dates == GroupDates(group)
            intervals == Intervals(dates)
            n == Len(intervals)
            total == SumSeq(intervals)
            last_charge == LastCharge(dates)
        IN IF HasNaT(dates) THEN
               \* avg_interval is nan: both range tests are false, round(nan) raises
               {[error |-> "ValueError"]}
           ELSE IF MeanIn(intervals, 25, 35) THEN
               {[error |-> "",
                 row |-> WithCost(last, CostMonthly(last.amount), "monthly", last_charge)]
                  : last \in IlocLast(group)}
           ELSE IF MeanIn(intervals, 350, 380) THEN
               {[error |-> "",
                 row |-> WithCost(last, CostAnnual(last.amount), "annual", last_charge)]
                  : last \in IlocLast(group)}
           ELSE IF total = 0 THEN
               \* 30 / avg_interval with avg_interval == 0.0
               {[error |-> "ZeroDivisionError"]}
           ELSE
               {[error |-> "",
                 row |-> WithCost(last, CostOther(last.amount, total, n),
                                  FrequencyOther(total, n), last_charge)]
                  : last \in IlocLast(group)}
    ELSE
        {[error |-> "", row |-> SingleOccurrence(group[1])]}

DescriptionGroup(rows, desc) == SelectSeq(rows, LAMBDA r : r.description = desc)

\* a row per candidate row: the grouping by description left out
CalculateMonthlyCostPerRow(rows) ==
    {[error |-> "", rows |-> [i \in 1..Len(rows) |-> SingleOccurrence(rows[i])]]}

\* the possible results: [error |-> "", rows |-> one row per group], or
\* [error |-> e, rows |-> <<>>] for an exception e that a group raises
CalculateMonthlyCost(rows) ==
    LET keys == Unique([i \in 1..Len(rows) |-> rows[i].description])
        outcomes == [i \in 1..Len(keys) |-> GroupOutcomes(DescriptionGroup(rows, keys[i]))]
        raised == {o.error : o \in {x \in UNION Range(outcomes) : x.error # ""}}
    IN IF raised # {} THEN {[error |-> e, rows |-> <<>>] : e \in raised}
       ELSE {[error |-> "", rows |-> [i \in 1..Len(keys) |-> t[i].row]]
               : t \in {f \in [1..Len(keys) -> UNION Range(outcomes)] :
                          \A i \in 1..Len(keys) : f[i] \in outcomes[i]}}

(***************************************************************************)
(* detect_subscriptions                                                    *)
(***************************************************************************)
Columns == {"date", "description", "amount"}

ParsedRows(rows) ==
    [i \in 1..Len(rows) |->
        [date |-> ToDatetime(rows[i].date), description |-> rows[i].description,
         amount |-> rows[i].amount]]

Raised(df, e, keyword, recurring, combined) ==
    [error |-> e, df |-> df, potential_subs |-> keyword,
     recurring_patterns |-> recurring, candidates |-> combined, subscriptions |-> <<>>]

\* every way a call detect_subscriptions(df) can end
DetectSubscriptions(df) ==
    IF "date" \notin df.columns THEN
        {Raised(df, "KeyError", <<>>, <<>>, <<>>)}
    ELSE IF \E i \in 1..Len(df.rows) : ~Parseable(df.rows[i].date) THEN
        {Raised(df, "ValueError", <<>>, <<>>, <<>>)}
    ELSE
        LET parsed == [columns |-> df.columns, rows |-> ParsedRows(df.rows),
                       date_dtype |-> "datetime64[ns]"]
        IN IF "description" \notin df.columns THEN
               {Raised(parsed, "KeyError", <<>>, <<>>, <<>>)}
           ELSE IF "amount" \notin df.columns THEN
               {Raised(parsed, "KeyError", FindKeywordMatches(parsed.rows), <<>>, <<>>)}
           ELSE
               LET keyword == FindKeywordMatches(parsed.rows)
                   recurring == FindRecurringPatterns(parsed.rows)
                   combined == DropDuplicates(keyword \o recurring)
               IN {IF res.error # "" THEN Raised(parsed, res.error, keyword, recurring, combined)
                   ELSE [error |-> "", df |-> parsed, potential_subs |-> keyword,
                         recurring_patterns |-> recurring, candidates |-> combined,
                         subscriptions |-> res.rows]
                     : res \in CalculateMonthlyCost(Categorize(combined))}

(***************************************************************************)
(* The table detect_subscriptions returns: pd.DataFrame(results).  Its     *)
(* columns are the keys of the appended rows; built from an empty list it  *)
(* has no columns at all.                                                  *)
(***************************************************************************)
SubscriptionColumns ==
    {"date", "description", "amount", "category", "monthly_cost", "frequency",
     "last_charge"}

DataFrame(results) ==
    [columns |-> IF results = <<>> THEN {} ELSE SubscriptionColumns,
     rows |-> results]

(***************************************************************************)
(* Visualizer.savings_opportunities                                        *)
(***************************************************************************)
RECURSIVE GCD(_, _)
GCD(a, b) == IF b = 0 THEN a ELSE GCD(b, a % b)

\* a + b on floats, exactly
AddCost(a, b) ==
    LET num == a.num * b.den + b.num * a.den
        den == a.den * b.den
        g == GCD(Abs(num), den)
    IN [num |-> num \div g, den |-> den \div g]

\* Series.sum(): missing values are skipped
RECURSIVE SumCost(_)
SumCost(costs) ==
    IF costs = <<>> THEN [num |-> 0, den |-> 1]
    ELSE IF Head(costs) = CostNaN THEN SumCost(Tail(costs))
    ELSE AddCost(Head(costs), SumCost(Tail(costs)))

\* every category present taken for a shared one
DuplicateCategoriesFromOne(rows) ==
    SelectSeq(Unique([i \in 1..Len(rows) |-> rows[i].category]),
              LAMBDA c : Len(SelectSeq(rows, LAMBDA r : r.category = c)) > 0)

\* category_counts[category_counts['count'] > 1]['category'].tolist()
DuplicateCategories(rows) ==
    SelectSeq(Unique([i \in 1..Len(rows) |-> rows[i].category]),
              LAMBDA c : Len(SelectSeq(rows, LAMBDA r : r.category = c)) > 1)

DuplicateCategory(rows, c) ==
    LET category_subs == SelectSeq(rows, LAMBDA r : r.category = c)
    IN [type |-> "duplicate_category",
        category |-> c,
        subscriptions |-> [i \in 1..Len(category_subs) |-> category_subs[i].description],
        monthly_cost |-> SumCost([i \in 1..Len(category_subs) |-> category_subs[i].monthly_cost]),
        recommendation |-> "Consider consolidating " \o c \o " subscriptions"]

\* 20 currency units, in cents
SavingsThreshold == 2000

\* sub['monthly_cost'] * 12 * 0.15
PotentialAnnualSavings(monthly_cost) ==
    [num |-> monthly_cost.num * 12 * 15, den |-> monthly_cost.den * 100]

\* a discount on any saving at all
WorthSwitchingAlways(savings) == savings # CostNaN /\ savings.num > 0

\* potential_annual_savings > 20; a comparison with nan is false
WorthSwitching(savings) ==
    savings # CostNaN /\ savings.num > SavingsThreshold * savings.den

\* the recommendation text, a rendering of annual_savings, is left out
AnnualDiscount(sub) ==
    [type |-> "annual_discount",
     subscription |-> sub.description,
     monthly_cost |-> sub.monthly_cost,
     annual_savings |-> PotentialAnnualSavings(sub.monthly_cost)]

\* the result of savings_opportunities(subscriptions_df):
\* [error |-> "", opportunities |-> the list] or [error |-> the exception]
SavingsOpportunities(subscriptions_df) ==
    IF "category" \notin subscriptions_df.columns THEN
        \* groupby('category') on a table without that column
        [error |-> "KeyError", opportunities |-> <<>>]
    ELSE
        LET rows == subscriptions_df.rows
            duplicate_categories == DuplicateCategories(rows)
            monthly_subs == SelectSeq(rows, LAMBDA r : r.frequency = "monthly")
            discounted == SelectSeq(monthly_subs,
                LAMBDA r : WorthSwitching(PotentialAnnualSavings(r.monthly_cost)))
        IN [error |-> "",
            opportunities |->
                [i \in 1..Len(duplicate_categories) |->
                    DuplicateCategory(rows, duplicate_categories[i])]
                \o [i \in 1..Len(discounted) |-> AnnualDiscount(discounted[i])]]

(***************************************************************************)
(* Inputs.                                                                 *)
(***************************************************************************)
\* amounts in cents: 15.49 and 120.00
Amounts == {1549, 12000}

Tables(columnsets, rowset) ==
    {[columns |-> cols, rows |-> rows, date_dtype |-> "object"] :
        cols \in columnsets,
        rows \in UNION {[1..n -> rowset] : n \in 0..MaxLen}}

\* well-formed transactions
ValidRows == [date : DateStrings, description : Descriptions, amount : Amounts]

\* transactions as a normalizer can hand them over: cells may be missing or garbled
RawRows ==
    [date : {"2023-01-01", "2023-02-01", MissingCell, NotADate},
     description : Descriptions, amount : {1549, NaN}]

\* tables with all three columns, or with one of them missing
RawColumns == {Columns} \cup {Columns \ {c} : c \in Columns}

\* descriptions for direct calls of _categorize_subscription
Tokens ==
    {"NETFLIX.COM", "Spotify ", "DROPBOX", "Xbox", "box", " Adobe", "Gym",
     "nyt", "ACME STORE", " "}

RECURSIVE TokenStrings(_)
TokenStrings(n) ==
    IF n = 0 THEN {""}
    ELSE LET shorter == TokenStrings(n - 1)
         IN shorter \cup {s \o t : s \in shorter, t \in Tokens}

\* tables whose descriptions exercise the keyword list
KeywordRows ==
    [date : {"2023-01-01", "2023-02-01"}, description : KeywordDescriptions,
     amount : {1549}]

\* amounts in cents: 5.00 and 50.00
SavingsAmounts == {500, 5000}

\* a row as _calculate_monthly_cost appends it, for each kind of frequency
SavingsRow(desc, kind, amount) ==
    LET row == [date |-> 61, description |-> desc, amount |-> amount,
                category |-> CategoryOf[desc]]
    IN CASE kind = "monthly" -> WithCost(row, CostMonthly(amount), "monthly", 61)
         [] kind = "annual"  -> WithCost(row, CostAnnual(amount), "annual", 61)
         [] kind = "other"   -> WithCost(row, CostOther(amount, 20, 1),
                                         FrequencyOther(20, 1), 61)
         [] kind = "unknown" -> SingleOccurrence(row)

SavingsKinds == {"monthly", "annual", "other", "unknown"}

\* the descriptions of a returned table of n rows: each at most once
DistinctDescriptions(n) ==
    {f \in [1..n -> SavingsDescriptions] : \A i, j \in 1..n : f[i] = f[j] => i = j}

(***************************************************************************)
(* st.session_state and the statements a user uploads.                     *)
(***************************************************************************)
None == <<>>
Some(x) == <<x>>

MaxUploadLen == 2

UploadRows ==
    [date : {"2023-01-01", "2023-02-01", NotADate}, description : Descriptions,
     amount : {1549}]

\* what a parser makes of a statement: a table, one without any column when
\* no transaction line was found
UploadTables ==
    {[columns |-> Columns, rows |-> rows, date_dtype |-> "object"] :
        rows \in UNION {[1..n -> UploadRows] : n \in 0..MaxUploadLen}}
    \cup {[columns |-> {}, rows |-> <<>>, date_dtype |-> "object"]}

\* the session state as initialised on the first run of the script
NewSession ==
    [transactions |-> None, subscriptions |-> None,
     flagged_subscriptions |-> <<>>, canceled_subscriptions |-> <<>>]

\* the main content is shown: subscriptions is not None and not empty
HasSubscriptions(state) ==
    state.subscriptions # None /\ state.subscriptions[1].rows # <<>>

(***************************************************************************)
(* CancellationService.get_cancellation_methods                            *)
(***************************************************************************)
cancellation_info ==
    << [service |-> "netflix",      methods |-> <<"Online Form", "Phone">>],
       [service |-> "spotify",      methods |-> <<"Online Form">>],
       [service |-> "hulu",         methods |-> <<"Online Form">>],
       [service |-> "amazon prime", methods |-> <<"Online Form">>] >>

RECURSIVE MethodsFrom(_, _)
MethodsFrom(i, name) ==
    IF i > Len(cancellation_info) THEN <<"Email", "Phone", "Online Form">>
    ELSE IF Contains(cancellation_info[i].service, name) THEN cancellation_info[i].methods
    ELSE MethodsFrom(i + 1, name)

GetCancellationMethods(subscription_name) == MethodsFrom(1, Lower(subscription_name))

CancellationMethods == [d \in Descriptions |-> GetCancellationMethods(d)]

\* datetime.now().strftime('%Y-%m-%d')
Today == "2023-03-03"

MaxCanceled == 3

\* sum([sub['annual_savings'] for sub in st.session_state.canceled_subscriptions])
TotalSavings(canceled_subscriptions) ==
    SumCost([i \in 1..Len(canceled_subscriptions) |->
                canceled_subscriptions[i].annual_savings])

\* a statement the parser rejects, or one it turns into a table
UploadedFiles ==
    {[parses |-> FALSE]} \cup {[parses |-> TRUE, table |-> t] : t \in UploadTables}

\* detect_subscriptions on each of these tables
Detected == [t \in UploadTables |-> DetectSubscriptions(t)]

(***************************************************************************)
(* CSVParser._detect_columns                                               *)
(***************************************************************************)
\* the column_mapping dict, in declaration (= iteration) order
column_mapping ==
    << [standard |-> "date",
        variations |-> <<"date", "transaction date", "trans date", "posted date">>],
       [standard |-> "description",
        variations |-> <<"description", "transaction", "details", "merchant", "name">>],
       [standard |-> "amount",
        variations |-> <<"amount", "transaction amount", "debit", "credit">>] >>

\* new_columns[col] of the first standard name with a variation in col_lower;
\* a column without one keeps its name
RECURSIVE StandardNameFrom(_, _, _)
StandardNameFrom(i, col_lower, col) ==
    IF i > Len(column_mapping) THEN col
    ELSE IF AnyKeywordIn(column_mapping[i].variations, col_lower)
         THEN column_mapping[i].standard
    ELSE StandardNameFrom(i + 1, col_lower, col)

\* self.data.rename(columns=new_columns).columns
DetectColumns(columns) ==
    [i \in 1..Len(columns) |-> StandardNameFrom(1, Lower(columns[i]), columns[i])]

\* column names of bank statements
ColumnNames ==
    {"Date", "Transaction Date", "Posted Date", "Description", "Merchant Name",
     "Transaction Amount", "Amount", "Debit", "Balance"}

MaxColumns == 3

\* headers of n columns; pd.read_csv makes the names of a header distinct
Headers(n) ==
    {f \in [1..n -> ColumnNames] : \A i, j \in 1..n : f[i] = f[j] => i = j}

(***************************************************************************)
(* Actions.                                                                *)
(***************************************************************************)
\* a call detector.detect_subscriptions(transactions_df)
Detect ==
    /\ pc = "ready"
    /\ \E out \in DetectSubscriptions(transactions_df) :
        /\ transactions_df' = out.df
        /\ error' = out.error
        /\ potential_subs' = out.potential_subs
        /\ recurring_patterns' = out.recurring_patterns
        /\ candidates' = out.candidates
        /\ subscriptions' = out.subscriptions
        /\ pc' = IF out.error = "" THEN "returned" ELSE "raised"
    /\ UNCHANGED <<description, category, savings_pc, savings_opportunities,
                   session_state, message>>
    /\ UNCHANGED parser_vars

\* a call detector._categorize_subscription(description)
CategorizeCall ==
    /\ pc = "ready"
    /\ category' = CategorizeSubscription(description)
    /\ pc' = "categorized"
    /\ UNCHANGED <<transactions_df, error, potential_subs, recurring_patterns,
                   candidates, subscriptions, description, savings_pc,
                   savings_opportunities, session_state, message>>
    /\ UNCHANGED parser_vars

\* a call self._detect_columns() on the table read from a CSV statement
DetectColumnsCall ==
    /\ pc = "ready"
    /\ data_columns' = DetectColumns(csv_columns)
    /\ pc' = "renamed"
    /\ UNCHANGED <<transactions_df, error, potential_subs, recurring_patterns,
                   candidates, subscriptions, description, category,
                   savings_pc, savings_opportunities, session_state, message,
                   csv_columns>>

\* a call visualizer.savings_opportunities(subscriptions) on a returned table
SavingsCall ==
    /\ pc = "returned"
    /\ savings_pc = "idle"
    /\ LET out == SavingsOpportunities(DataFrame(subscriptions))
       IN /\ savings_opportunities' = out.opportunities
          /\ savings_pc' = IF out.error = "" THEN "returned" ELSE "raised"
    /\ UNCHANGED <<transactions_df, pc, error, potential_subs, recurring_patterns,
                   candidates, subscriptions, description, category,
                   session_state, message>>
    /\ UNCHANGED parser_vars

\* one run of the upload block: the parser raises, or it yields a table that
\* is stored and then handed to detect_subscriptions
Upload ==
    /\ \E uploaded_file \in UploadedFiles :
        IF ~uploaded_file.parses THEN
            /\ message' = "error"
            /\ UNCHANGED session_state
        ELSE
            \E out \in Detected[uploaded_file.table] :
                IF out.error # "" THEN
                    /\ session_state' =
                          [session_state EXCEPT !.transactions = Some(out.df)]
                    /\ message' = "error"
                ELSE
                    /\ session_state' =
                          [session_state EXCEPT
                              !.transactions = Some(out.df),
                              !.subscriptions = Some(DataFrame(out.subscriptions))]
                    /\ message' = "success"
    /\ UNCHANGED <<transactions_df, pc, error, potential_subs, recurring_patterns,
                   candidates, subscriptions, description, category,
                   savings_pc, savings_opportunities>>
    /\ UNCHANGED parser_vars

\* a click on "Flag for Review" in the expander of an opportunity
FlagForReview ==
    /\ HasSubscriptions(session_state)
    /\ LET savings_opps == SavingsOpportunities(session_state.subscriptions[1]).opportunities
       IN \E i \in 1..Len(savings_opps) :
            LET opp == savings_opps[i]
            IN IF opp \notin Range(session_state.flagged_subscriptions) THEN
                   /\ session_state' =
                         [session_state EXCEPT
                             !.flagged_subscriptions = Append(@, opp)]
                   /\ message' = "success"
               ELSE
                   UNCHANGED <<session_state, message>>
    /\ UNCHANGED <<transactions_df, pc, error, potential_subs, recurring_patterns,
                   candidates, subscriptions, description, category,
                   savings_pc, savings_opportunities>>
    /\ UNCHANGED parser_vars

\* a click on "Mark as Canceled" for the selected subscription and method
MarkAsCanceled ==
    /\ HasSubscriptions(session_state)
    /\ Len(session_state.canceled_subscriptions) < MaxCanceled
    /\ LET rows == session_state.subscriptions[1].rows
       IN \E k \in 1..Len(rows) :
            LET selected_sub == rows[k].description
                sub_details == SelectSeq(rows, LAMBDA r : r.description = selected_sub)[1]
                cancellation_methods == CancellationMethods[selected_sub]
            IN \E m \in 1..Len(cancellation_methods) :
                 LET canceled_sub ==
                         [description |-> selected_sub,
                          monthly_cost |-> sub_details.monthly_cost,
                          annual_savings |->
                              [num |-> sub_details.monthly_cost.num * 12,
                               den |-> sub_details.monthly_cost.den],
                          canceled_date |-> Today,
                          method |-> cancellation_methods[m]]
                 IN session_state' =
                        [session_state EXCEPT
                            !.canceled_subscriptions = Append(@, canceled_sub)]
    /\ message' = "success"
    /\ UNCHANGED <<transactions_df, pc, error, potential_subs, recurring_patterns,
                   candidates, subscriptions, description, category,
                   savings_pc, savings_opportunities>>
    /\ UNCHANGED parser_vars

NoResults ==
    /\ pc = "ready"
    /\ error = ""
    /\ potential_subs = <<>>
    /\ recurring_patterns = <<>>
    /\ candidates = <<>>
    /\ subscriptions = <<>>
    /\ category = ""
    /\ savings_pc = "idle"
    /\ savings_opportunities = <<>>
    /\ session_state = NewSession
    /\ message = ""
    /\ data_columns = <<>>

\* detection on well-formed tables
Init ==
    /\ transactions_df \in Tables({Columns}, ValidRows)
    /\ description = ""
    /\ csv_columns = <<>>
    /\ NoResults

Next == Detect \/ SavingsCall

Spec == Init /\ [][Next]_vars

\* detection on tables as handed over, malformed ones included
InitRaw ==
    /\ transactions_df \in Tables(RawColumns, RawRows)
    /\ description = ""
    /\ csv_columns = <<>>
    /\ NoResults

SpecRaw == InitRaw /\ [][Detect]_vars

\* categorization of single descriptions
InitCategorize ==
    /\ transactions_df = [columns |-> Columns, rows |-> <<>>, date_dtype |-> "object"]
    /\ description \in TokenStrings(MaxTokens)
    /\ csv_columns = <<>>
    /\ NoResults

SpecCategorize == InitCategorize /\ [][CategorizeCall]_vars

\* descriptions that are, or embed, a keyword of the category mapping
CategoryKeywords == UNION {Range(categories[i].keywords) : i \in 1..Len(categories)}

KeywordPhrases ==
    {before \o k \o after :
        before \in {"", "PAYPAL *"}, k \in CategoryKeywords, after \in {"", " inc"}}

\* categorization of the keywords of the mapping themselves
InitKeywordPhrases ==
    /\ transactions_df = [columns |-> Columns, rows |-> <<>>, date_dtype |-> "object"]
    /\ description \in KeywordPhrases
    /\ csv_columns = <<>>
    /\ NoResults

SpecKeywordPhrases == InitKeywordPhrases /\ [][CategorizeCall]_vars

\* the keyword filter on tables of varied descriptions
InitKeyword ==
    /\ transactions_df \in Tables({Columns}, KeywordRows)
    /\ description = ""
    /\ csv_columns = <<>>
    /\ NoResults

SpecKeyword == InitKeyword /\ [][Detect]_vars

\* savings_opportunities on returned subscription tables
InitSavings ==
    /\ transactions_df = [columns |-> Columns, rows |-> <<>>, date_dtype |-> "datetime64[ns]"]
    /\ description = ""
    /\ csv_columns = <<>>
    /\ pc = "returned"
    /\ error = ""
    /\ potential_subs = <<>>
    /\ recurring_patterns = <<>>
    /\ candidates = <<>>
    /\ \E n \in 0..MaxLen :
          \E descs \in DistinctDescriptions(n), kinds \in [1..n -> SavingsKinds],
             amounts \in [1..n -> SavingsAmounts] :
              subscriptions = [i \in 1..n |-> SavingsRow(descs[i], kinds[i], amounts[i])]
    /\ category = ""
    /\ savings_pc = "idle"
    /\ savings_opportunities = <<>>
    /\ session_state = NewSession
    /\ message = ""
    /\ data_columns = <<>>

SpecSavings == InitSavings /\ [][SavingsCall]_vars

\* column detection on the headers of CSV statements
InitColumns ==
    /\ transactions_df = [columns |-> Columns, rows |-> <<>>, date_dtype |-> "object"]
    /\ description = ""
    /\ \E n \in 1..MaxColumns : csv_columns \in Headers(n)
    /\ NoResults

SpecColumns == InitColumns /\ [][DetectColumnsCall]_vars

\* a session of uploads
InitSession ==
    /\ transactions_df = [columns |-> Columns, rows |-> <<>>, date_dtype |-> "object"]
    /\ description = ""
    /\ csv_columns = <<>>
    /\ NoResults

NextSession == Upload \/ FlagForReview \/ MarkAsCanceled

SpecSession == InitSession /\ [][NextSession]_vars

(***************************************************************************)
(* Vocabulary of the properties.  Gaps and means are stated from the       *)
(* dates themselves: the mean gap of k dated rows is (latest - earliest)   *)
(* over k - 1.                                                             *)
(***************************************************************************)
Max(S) == CHOOSE x \in S : \A y \in S : y <= x
Min(S) == CHOOSE x \in S : \A y \in S : x <= y

Indices(rows, P(_)) == {i \in 1..Len(rows) : P(rows[i])}

\* the gaps between date-consecutive rows among the rows `idx` of `rows`
GapsOf(rows, idx) ==
    {rows[j].date - rows[i].date : <<i, j>> \in
        {p \in idx \X idx :
            /\ p[1] # p[2]
            /\ rows[p[1]].date <= rows[p[2]].date
            /\ ~\E k \in idx : /\ rows[p[1]].date < rows[k].date
                               /\ rows[k].date < rows[p[2]].date}}

SpanOf(rows, idx) ==
    Max({rows[i].date : i \in idx}) - Min({rows[i].date : i \in idx})

\* lo <= mean gap <= hi
MeanGapIn(rows, idx, lo, hi) ==
    /\ Cardinality(idx) >= 2
    /\ lo * (Cardinality(idx) - 1) <= SpanOf(rows, idx)
    /\ SpanOf(rows, idx) <= hi * (Cardinality(idx) - 1)

\* every gap within 5 days of the mean gap
GapsConsistent(rows, idx) ==
    \A g \in GapsOf(rows, idx) :
        Abs(g * (Cardinality(idx) - 1) - SpanOf(rows, idx)) <= 5 * (Cardinality(idx) - 1)

CandidatesOf(desc) == Indices(candidates, LAMBDA r : r.description = desc)
SubscriptionsOf(desc) == Indices(subscriptions, LAMBDA r : r.description = desc)
LatestCandidatesOf(desc) ==
    {i \in CandidatesOf(desc) :
        candidates[i].date = Max({candidates[k].date : k \in CandidatesOf(desc)})}
BatchGroup(desc, amount) ==
    Indices(transactions_df.rows, LAMBDA r : r.description = desc /\ r.amount = amount)
RecurringOf(desc, amount) ==
    Indices(recurring_patterns, LAMBDA r : r.description = desc /\ r.amount = amount)

\* the example of the specification: NETFLIX.COM, 15.49, on 2023-01-01, 02-01, 03-03
NetflixExample ==
    <<[date |-> 0, description |-> "NETFLIX.COM", amount |-> 1549],
      [date |-> 31, description |-> "NETFLIX.COM", amount |-> 1549],
      [date |-> 61, description |-> "NETFLIX.COM", amount |-> 1549]>>

(***************************************************************************)
(* C1: when detect_subscriptions returns, its table has exactly one row    *)
(* for every description occurring in the keyword matches or the recurring *)
(* patterns, and no row for any other description.                         *)
(***************************************************************************)
OneRowPerCandidateDescription ==
    pc = "returned" =>
        /\ \A r \in Range(potential_subs) \cup Range(recurring_patterns) :
              Cardinality(SubscriptionsOf(r.description)) = 1
        /\ \A j \in 1..Len(subscriptions) :
              \E r \in Range(potential_subs) \cup Range(recurring_patterns) :
                  r.description = subscriptions[j].description

\* a description found by both analyses: its rows are merged into one
SeveralRowsOfOneDescription ==
    /\ pc = "returned"
    /\ recurring_patterns # <<>>
    /\ Len(candidates) < Len(potential_subs) + Len(recurring_patterns)
    /\ Len(subscriptions) < Len(candidates)

(***************************************************************************)
(* C2: candidates of one description that all bear the same date (mean     *)
(* gap zero) yield a Subscription of frequency "unknown"; the call does    *)
(* not fail on the division by the mean gap.                               *)
(***************************************************************************)
ZeroMeanGapIsUnknown ==
    pc # "ready" =>
        \A i \in 1..Len(candidates) :
            LET idx == CandidatesOf(candidates[i].description)
            IN (Cardinality(idx) >= 2 /\ SpanOf(candidates, idx) = 0) =>
                   /\ pc = "returned"
                   /\ \E j \in SubscriptionsOf(candidates[i].description) :
                          subscriptions[j].frequency = "unknown"

(***************************************************************************)
(* C3: a returned row of frequency "monthly" carries the amount of a       *)
(* latest-dated candidate of its description, and its monthly_cost is that  *)
(* amount; the three NETFLIX.COM charges of 15.49 give one monthly row of  *)
(* monthly_cost 15.49.                                                     *)
(***************************************************************************)
MonthlyCostIsLatestAmount ==
    pc = "returned" =>
        /\ \A j \in 1..Len(subscriptions) :
              subscriptions[j].frequency = "monthly" =>
                  /\ \E i \in LatestCandidatesOf(subscriptions[j].description) :
                         candidates[i].amount = subscriptions[j].amount
                  /\ subscriptions[j].monthly_cost = [num |-> subscriptions[j].amount, den |-> 1]
        /\ transactions_df.rows = NetflixExample =>
              /\ Len(subscriptions) = 1
              /\ subscriptions[1].frequency = "monthly"
              /\ subscriptions[1].monthly_cost = [num |-> 1549, den |-> 1]
              /\ subscriptions[1].last_charge = 61

\* a monthly row whose description was charged two different amounts
MonthlyWithChangedAmount ==
    /\ pc = "returned"
    /\ \E j \in 1..Len(subscriptions) :
          /\ subscriptions[j].frequency = "monthly"
          /\ \E i \in CandidatesOf(subscriptions[j].description) :
                 candidates[i].amount # subscriptions[j].amount

(***************************************************************************)
(* C4: a returned row of frequency "annual" has at least two candidates of *)
(* its description with mean gap in [350,380], and 12 times its            *)
(* monthly_cost is the amount of a latest-dated candidate.                 *)
(***************************************************************************)
AnnualCostIsTwelfth ==
    pc = "returned" =>
        \A j \in 1..Len(subscriptions) :
            subscriptions[j].frequency = "annual" =>
                /\ MeanGapIn(candidates, CandidatesOf(subscriptions[j].description), 350, 380)
                /\ \E i \in LatestCandidatesOf(subscriptions[j].description) :
                       candidates[i].amount = subscriptions[j].amount
                /\ subscriptions[j].monthly_cost.den > 0
                /\ 12 * subscriptions[j].monthly_cost.num
                       = subscriptions[j].amount * subscriptions[j].monthly_cost.den

\* an annual row whose latest amount differs from the earlier one
AnnualWithChangedAmount ==
    /\ pc = "returned"
    /\ \E j \in 1..Len(subscriptions) :
          /\ subscriptions[j].frequency = "annual"
          /\ \E i \in CandidatesOf(subscriptions[j].description) :
                 candidates[i].amount # subscriptions[j].amount

(***************************************************************************)
(* C5: no row of the recurring patterns stands for a (description, amount) *)
(* group of the batch in which some gap differs from the mean gap by more  *)
(* than 5 days.                                                            *)
(***************************************************************************)
InconsistentGroupsNotEmitted ==
    pc # "ready" =>
        \A r \in Range(recurring_patterns) :
            GapsConsistent(transactions_df.rows, BatchGroup(r.description, r.amount))

\* a group with mean gap in [25,35] and a gap off the mean by more than 5 was passed over
InconsistentMonthlyGroupSeen ==
    /\ pc = "returned"
    /\ \E r \in Range(transactions_df.rows) :
          /\ MeanGapIn(transactions_df.rows, BatchGroup(r.description, r.amount), 25, 35)
          /\ ~GapsConsistent(transactions_df.rows, BatchGroup(r.description, r.amount))
          /\ RecurringOf(r.description, r.amount) = {}

(***************************************************************************)
(* C6: the recurring patterns hold exactly one row for a (description,     *)
(* amount) group that has at least 2 rows, consistent gaps and a mean gap  *)
(* in [25,35] or [350,380], and none for any other group; the row is the   *)
(* earliest-dated row of its group.                                        *)
(***************************************************************************)
RecurringExactlyThePeriodicGroups ==
    pc # "ready" =>
        /\ \A r \in Range(transactions_df.rows) :
              LET idx == BatchGroup(r.description, r.amount)
                  periodic ==
                      /\ Cardinality(idx) >= 2
                      /\ GapsConsistent(transactions_df.rows, idx)
                      /\ \/ MeanGapIn(transactions_df.rows, idx, 25, 35)
                         \/ MeanGapIn(transactions_df.rows, idx, 350, 380)
              IN Cardinality(RecurringOf(r.description, r.amount))
                     = IF periodic THEN 1 ELSE 0
        /\ \A r \in Range(recurring_patterns) :
              LET idx == BatchGroup(r.description, r.amount)
              IN /\ idx # {}
                 /\ r.date = Min({transactions_df.rows[i].date : i \in idx})

\* one group of three rows emitted, a single-row group and nothing else
RecurringGroupOfThreeEmitted ==
    /\ pc = "returned"
    /\ Len(recurring_patterns) = 1
    /\ Cardinality(BatchGroup(recurring_patterns[1].description,
                              recurring_patterns[1].amount)) = 3

(***************************************************************************)
(* C7: a table with a missing column, or with a missing or unparseable     *)
(* date or amount cell, makes detect_subscriptions fail: whenever it       *)
(* returns a table, the batch was well-formed, and no returned row holds   *)
(* a missing value as monthly_cost or last_charge.                         *)
(***************************************************************************)
MalformedBatchFails ==
    pc = "returned" =>
        /\ transactions_df.columns = Columns
        /\ \A i \in 1..Len(transactions_df.rows) :
              /\ transactions_df.rows[i].date # NaT
              /\ transactions_df.rows[i].amount # NaN
        /\ \A j \in 1..Len(subscriptions) :
              /\ subscriptions[j].last_charge # NaT
              /\ subscriptions[j].monthly_cost # CostNaN

(***************************************************************************)
(* C8: _categorize_subscription returns the first category, in the order   *)
(* streaming, music, cloud, software, gaming, fitness, news, other, one of *)
(* whose keywords occurs in the lower-cased description, and "other" when  *)
(* none does.                                                              *)
(***************************************************************************)
DeclarationOrder ==
    <<"streaming", "music", "cloud", "software", "gaming", "fitness", "news", "other">>

KeywordsOf(name) ==
    (CHOOSE c \in Range(categories) : c.name = name).keywords

CategoryIsFirstMatch ==
    pc = "categorized" =>
        LET matching ==
                {p \in 1..Len(DeclarationOrder) :
                    \E kw \in Range(KeywordsOf(DeclarationOrder[p])) :
                        Contains(kw, Lower(description))}
        IN /\ matching = {} => category = "other"
           /\ matching # {} => category = DeclarationOrder[Min(matching)]
           /\ description = "NETFLIX.COM" => category = "streaming"
           /\ description = "DROPBOXSpotify " => category = "music"
           /\ description = "GymDROPBOX" => category = "cloud"
           /\ description = "ACME STORE" => category = "other"

\* a description with keywords of two categories, the later-declared one first in the text
AmbiguousDescriptionCategorized ==
    /\ pc = "categorized"
    /\ description = "DROPBOXSpotify "
    /\ category = "music"

(***************************************************************************)
(* C9: a description with exactly one candidate row yields a row of        *)
(* frequency "unknown" whose monthly_cost is that row's amount and whose   *)
(* last_charge is that row's date.                                         *)
(***************************************************************************)
SingleOccurrenceIsUnknown ==
    pc = "returned" =>
        \A i \in 1..Len(candidates) :
            CandidatesOf(candidates[i].description) = {i} =>
                \E j \in SubscriptionsOf(candidates[i].description) :
                    /\ subscriptions[j].frequency = "unknown"
                    /\ subscriptions[j].monthly_cost = [num |-> candidates[i].amount, den |-> 1]
                    /\ subscriptions[j].last_charge = candidates[i].date

\* a single keyword-matched charge of 120.00 among transactions that are no candidates
SingleChargeOf120 ==
    /\ pc = "returned"
    /\ Len(transactions_df.rows) = 3
    /\ Len(potential_subs) = 1
    /\ recurring_patterns = <<>>
    /\ Len(subscriptions) = 1
    /\ subscriptions[1].frequency = "unknown"
    /\ subscriptions[1].monthly_cost = [num |-> 12000, den |-> 1]

(***************************************************************************)
(* C10: a description with at least two candidate rows whose mean gap is   *)
(* positive and in neither [25,35] nor [350,380] yields a row of frequency *)
(* "every N days", N the integer nearest to the mean gap (the even one of  *)
(* two equally near), and of monthly_cost = latest amount * 30 / mean gap. *)
(***************************************************************************)
OtherIntervalIsPer30Days ==
    pc = "returned" =>
        \A i \in 1..Len(candidates) :
            LET idx == CandidatesOf(candidates[i].description)
                n == Cardinality(idx) - 1
                span == SpanOf(candidates, idx)
            IN (/\ n >= 1
                /\ ~MeanGapIn(candidates, idx, 25, 35)
                /\ ~MeanGapIn(candidates, idx, 350, 380)) =>
                   \E j \in SubscriptionsOf(candidates[i].description) :
                       LET row == subscriptions[j]
                       IN /\ \E k \in LatestCandidatesOf(row.description) :
                                 candidates[k].amount = row.amount
                          /\ row.monthly_cost.den > 0
                          /\ row.monthly_cost.num * span
                                 = row.amount * 30 * n * row.monthly_cost.den
                          /\ \E N \in 0..span :
                                 /\ row.frequency = "every " \o ToString(N) \o " days"
                                 /\ 2 * Abs(N * n - span) <= n
                                 /\ 2 * Abs(N * n - span) = n => N % 2 = 0

\* a mean gap of 20.5 days (gaps 11 and 30), reported as every 20 days
HalfwayMeanGapSeen ==
    /\ pc = "returned"
    /\ \E j \in 1..Len(subscriptions) :
          /\ subscriptions[j].frequency = "every 20 days"
          /\ Cardinality(CandidatesOf(subscriptions[j].description)) = 3

MatchingDescriptions ==
    {d \in KnownDescriptions :
        \E k \in Range(subscription_keywords) : Contains(k, Lower(d))}

KeywordMatchesAreTheMatchingRows ==
    pc # "ready" =>
        /\ potential_subs =
              SelectSeq(transactions_df.rows,
                        LAMBDA r : r.description \in MatchingDescriptions)
        /\ MatchingDescriptions \cap KeywordDescriptions =
              {"NETFLIX.COM", "Monthly Fee", "GOOGLE *YouTube"}
        /\ (\A i \in 1..Len(transactions_df.rows) :
               transactions_df.rows[i].description \notin MatchingDescriptions)
             => potential_subs = <<>> /\ error = ""

\* matches of different descriptions, of mixed case, next to a row left out
SeveralKeywordMatches ==
    /\ pc # "ready"
    /\ Len(potential_subs) = 2
    /\ Len(transactions_df.rows) = 3
    /\ potential_subs[1].description = "Monthly Fee"
    /\ potential_subs[2].description = "NETFLIX.COM"
    /\ transactions_df.rows[2].description = "nyt digital"

(***************************************************************************)
(* Vocabulary of the savings properties.                                   *)
(***************************************************************************)
OpportunitiesOfType(type) ==
    {k \in 1..Len(savings_opportunities) : savings_opportunities[k].type = type}

AnnualDiscountsOf(desc) ==
    {k \in OpportunitiesOfType("annual_discount") :
        savings_opportunities[k].subscription = desc}

DuplicatesOf(c) ==
    {k \in OpportunitiesOfType("duplicate_category") :
        savings_opportunities[k].category = c}

\* the rational a equals num / den
SameRatio(a, num, den) == a.den # 0 /\ den # 0 /\ a.num * den = num * a.den

\* the sum over the rows idx of 60 * monthly_cost; the costs of the tables
\* handed over are whole multiples of 1/60 cent
RECURSIVE SixtyfoldCost(_, _)
SixtyfoldCost(rows, idx) ==
    IF idx = {} THEN 0
    ELSE LET i == CHOOSE x \in idx : TRUE
         IN rows[i].monthly_cost.num * (60 \div rows[i].monthly_cost.den)
              + SixtyfoldCost(rows, idx \ {i})

(***************************************************************************)
(* C13: savings_opportunities returns an annual_discount opportunity for a *)
(* subscription exactly when its frequency is "monthly" and its            *)
(* monthly_cost * 12 * 0.15 is strictly above 20 (2000 cents); the         *)
(* opportunity's annual_savings is monthly_cost * 12 * 0.15.  A monthly    *)
(* cost of 50 gives savings of 90, one of 5 gives no opportunity.          *)
(***************************************************************************)
AnnualDiscountIffMonthlyAbove20 ==
    savings_pc = "returned" =>
        \A j \in 1..Len(subscriptions) :
            LET sub == subscriptions[j]
                opps == AnnualDiscountsOf(sub.description)
            IN /\ opps # {} <=>
                    /\ sub.frequency = "monthly"
                    /\ sub.monthly_cost.num * 12 * 15 > 2000 * 100 * sub.monthly_cost.den
               /\ Cardinality(opps) <= 1
               /\ \A k \in opps :
                    /\ SameRatio(savings_opportunities[k].annual_savings,
                                 sub.monthly_cost.num * 12 * 15, sub.monthly_cost.den * 100)
                    /\ savings_opportunities[k].monthly_cost = sub.monthly_cost
               /\ (sub.frequency = "monthly" /\ sub.amount = 5000) =>
                    \E k \in opps :
                        SameRatio(savings_opportunities[k].annual_savings, 9000, 1)
               /\ (sub.frequency = "monthly" /\ sub.amount = 500) => opps = {}

\* a monthly row of 50, a monthly row of 5 and a costlier row of another
\* frequency: one annual_discount opportunity
OneDiscountAmongThree ==
    /\ savings_pc = "returned"
    /\ Len(subscriptions) = 3
    /\ \E i, j, k \in 1..3 :
          /\ subscriptions[i].frequency = "monthly" /\ subscriptions[i].amount = 5000
          /\ subscriptions[j].frequency = "monthly" /\ subscriptions[j].amount = 500
          /\ subscriptions[k].frequency = "every 20 days" /\ subscriptions[k].amount = 5000
    /\ Cardinality(OpportunitiesOfType("annual_discount")) = 1

(***************************************************************************)
(* C14: savings_opportunities returns exactly one duplicate_category       *)
(* opportunity for every category that more than one row of the table      *)
(* bears and none for any other category; it lists the descriptions of all *)
(* rows of that category, and its monthly_cost is the sum of theirs.       *)
(***************************************************************************)
OneDuplicatePerSharedCategory ==
    savings_pc = "returned" =>
        /\ \A j \in 1..Len(subscriptions) : 60 % subscriptions[j].monthly_cost.den = 0
        /\ \A k \in OpportunitiesOfType("duplicate_category") :
              \E j \in 1..Len(subscriptions) :
                  subscriptions[j].category = savings_opportunities[k].category
        /\ \A j \in 1..Len(subscriptions) :
              LET c == subscriptions[j].category
                  members == Indices(subscriptions, LAMBDA r : r.category = c)
                  opps == DuplicatesOf(c)
              IN IF Cardinality(members) > 1 THEN
                     /\ Cardinality(opps) = 1
                     /\ \A k \in opps :
                          LET opp == savings_opportunities[k]
                          IN /\ Len(opp.subscriptions) = Cardinality(members)
                             /\ Range(opp.subscriptions) =
                                  {subscriptions[i].description : i \in members}
                             /\ SameRatio(opp.monthly_cost,
                                          SixtyfoldCost(subscriptions, members), 60)
                 ELSE opps = {}

\* two streaming services of different frequency next to a row of another category
TwoStreamingAndAnother ==
    /\ savings_pc = "returned"
    /\ Len(subscriptions) = 3
    /\ subscriptions[1].category = "streaming" /\ subscriptions[1].frequency = "annual"
    /\ subscriptions[2].category = "other"
    /\ subscriptions[3].category = "streaming" /\ subscriptions[3].frequency = "every 20 days"
    /\ Cardinality(OpportunitiesOfType("duplicate_category")) = 1

(***************************************************************************)
(* C15: a batch without transactions, or one in which no transaction is a  *)
(* keyword match or part of a recurring pattern, is no error:              *)
(* detect_subscriptions returns an empty table, and savings_opportunities  *)
(* called on that table returns an empty list; neither call fails.         *)
(***************************************************************************)
EmptyResultIsNoError ==
    (pc # "ready" /\ potential_subs = <<>> /\ recurring_patterns = <<>>) =>
        /\ pc = "returned"
        /\ subscriptions = <<>>
        /\ savings_pc \in {"idle", "returned"}
        /\ savings_opportunities = <<>>

(***************************************************************************)
(* C16: a call of detect_subscriptions, returning or failing, leaves the   *)
(* caller's table as it was: the same columns and rows, the date column of *)
(* the same dtype, the same description and amount in every row.           *)
(***************************************************************************)
DetectionLeavesInputUntouched ==
    [][(pc = "ready" /\ pc' \in {"returned", "raised"}) =>
          /\ transactions_df'.columns = transactions_df.columns
          /\ transactions_df'.date_dtype = transactions_df.date_dtype
          /\ Len(transactions_df'.rows) = Len(transactions_df.rows)
          /\ \A i \in 1..Len(transactions_df.rows) :
                /\ transactions_df'.rows[i].description = transactions_df.rows[i].description
                /\ transactions_df'.rows[i].amount = transactions_df.rows[i].amount]_pc

(***************************************************************************)
(* C18: every (description, amount) group of the batch that                *)
(* _find_recurring_patterns accepts has a row in the returned table whose  *)
(* frequency is "monthly" (mean gap within 25..35) or "annual" (within     *)
(* 350..380) and whose last_charge is the latest date of the group.        *)
(***************************************************************************)
AcceptedGroupsAreLabelled ==
    pc = "returned" =>
        \A r \in Range(recurring_patterns) :
            LET idx == BatchGroup(r.description, r.amount)
                rows == transactions_df.rows
            IN \E j \in SubscriptionsOf(r.description) :
                   /\ subscriptions[j].frequency =
                        IF MeanGapIn(rows, idx, 25, 35) THEN "monthly" ELSE "annual"
                   /\ subscriptions[j].last_charge = Max({rows[i].date : i \in idx})

(***************************************************************************)
(* C19: a returned row of frequency "monthly" or "annual" has a            *)
(* (description, amount) group of its description that                     *)
(* _find_recurring_patterns accepted, with a mean gap in the same window.  *)
(***************************************************************************)
LabelledRowsWereAccepted ==
    pc = "returned" =>
        \A j \in 1..Len(subscriptions) :
            subscriptions[j].frequency \in {"monthly", "annual"} =>
                \E r \in Range(recurring_patterns) :
                    /\ r.description = subscriptions[j].description
                    /\ LET idx == BatchGroup(r.description, r.amount)
                       IN IF subscriptions[j].frequency = "monthly"
                          THEN MeanGapIn(transactions_df.rows, idx, 25, 35)
                          ELSE MeanGapIn(transactions_df.rows, idx, 350, 380)

(***************************************************************************)
(* Vocabulary of the session properties.                                   *)
(***************************************************************************)
StoredTransactions == session_state.transactions[1]
StoredSubscriptions == session_state.subscriptions[1]

(***************************************************************************)
(* C17: the stored results are those of one upload, nothing is carried     *)
(* over from an earlier one: whenever subscriptions are stored, every row  *)
(* of them bears the description, amount and date of a row of the stored   *)
(* transactions.                                                           *)
(***************************************************************************)
StoredRowsComeFromStoredTransactions ==
    session_state.subscriptions # None =>
        /\ session_state.transactions # None
        /\ \A j \in 1..Len(StoredSubscriptions.rows) :
              /\ StoredTransactions.date_dtype = "datetime64[ns]"
              /\ \E i \in 1..Len(StoredTransactions.rows) :
                    /\ StoredTransactions.rows[i].description = StoredSubscriptions.rows[j].description
                    /\ StoredTransactions.rows[i].amount = StoredSubscriptions.rows[j].amount
                    /\ StoredTransactions.rows[i].date = StoredSubscriptions.rows[j].date

(***************************************************************************)
(* C20: in every state of a session, stored subscriptions are the table    *)
(* detect_subscriptions returns for the stored transactions; the           *)
(* transactions of one statement are never paired with the subscriptions   *)
(* of another.                                                             *)
(***************************************************************************)
StoredSubscriptionsAreDetectedFromStored ==
    session_state.subscriptions # None =>
        /\ session_state.transactions # None
        /\ StoredTransactions.date_dtype = "datetime64[ns]"
        /\ \E t \in UploadTables :
              \E out \in Detected[t] :
                  /\ out.error = ""
                  /\ out.df = StoredTransactions
                  /\ DataFrame(out.subscriptions) = StoredSubscriptions

(***************************************************************************)
(* C21: every keyword of the category mapping is effective: a description  *)
(* equal to a keyword listed under a category is categorized as that       *)
(* category.                                                               *)
(***************************************************************************)
EveryCategoryKeywordEffective ==
    pc = "categorized" =>
        \A p \in 1..Len(DeclarationOrder) :
            description \in Range(KeywordsOf(DeclarationOrder[p])) =>
                category = DeclarationOrder[p]

(***************************************************************************)
(* C22: in every state of a session, canceled_subscriptions holds at most  *)
(* one entry per description and flagged_subscriptions holds no            *)
(* opportunity twice, so that the tracked total is the sum of              *)
(* monthly_cost * 12 over one entry per canceled description.              *)
(***************************************************************************)
FirstCanceledEntries ==
    SelectSeq([i \in 1..Len(session_state.canceled_subscriptions) |->
                  [i |-> i, entry |-> session_state.canceled_subscriptions[i]]],
              LAMBDA e : \A j \in 1..(e.i - 1) :
                  session_state.canceled_subscriptions[j].description # e.entry.description)

NoDoubleEntries ==
    LET canceled == session_state.canceled_subscriptions
        flagged == session_state.flagged_subscriptions
        once == FirstCanceledEntries
        total == TotalSavings(canceled)
        counted == SumCost([i \in 1..Len(once) |->
                              [num |-> once[i].entry.monthly_cost.num * 12,
                               den |-> once[i].entry.monthly_cost.den]])
    IN /\ \A i, j \in 1..Len(canceled) :
             canceled[i].description = canceled[j].description => i = j
       /\ \A i, j \in 1..Len(flagged) : flagged[i] = flagged[j] => i = j
       /\ total.num * counted.den = counted.num * total.den

(***************************************************************************)
(* C23: _detect_columns renames a column whose lower-cased name contains a *)
(* listed variation to the standard name of a variation it contains and    *)
(* leaves the other columns alone; "Transaction Amount" becomes "amount"   *)
(* and "Transaction Date" becomes "date"; afterwards at most one column    *)
(* bears each of the names date, description and amount.                   *)
(***************************************************************************)
StandardNamesIn(col) ==
    {column_mapping[p].standard : p \in
        {q \in 1..Len(column_mapping) :
            \E v \in Range(column_mapping[q].variations) : Contains(v, Lower(col))}}

ColumnsStandardizedOnce ==
    pc = "renamed" =>
        /\ Len(data_columns) = Len(csv_columns)
        /\ \A i \in 1..Len(csv_columns) :
              /\ StandardNamesIn(csv_columns[i]) = {} => data_columns[i] = csv_columns[i]
              /\ StandardNamesIn(csv_columns[i]) # {} =>
                    data_columns[i] \in StandardNamesIn(csv_columns[i])
              /\ csv_columns[i] = "Transaction Amount" => data_columns[i] = "amount"
              /\ csv_columns[i] = "Transaction Date" => data_columns[i] = "date"
        /\ \A i, j \in 1..Len(data_columns) :
              (data_columns[i] = data_columns[j] /\ data_columns[i] \in Columns) => i = j
====
